---- MODULE Spec2Model ----
(***************************************************************************)
(* Model of the ERC-8004 deployment tooling:                               *)
(*   - findVanitySalt and main of scripts/deploy-upgradeable.ts            *)
(*   - Create2Factory.deploy / computeAddress of contracts/Create2Factory  *)
(*                                                                         *)
(* keccak256 cannot be computed here.  It is modelled as an unknown but    *)
(* fixed function: a hash of structured data is the term                   *)
(* <<"keccak256", data>> (collision free), and the 20 address bytes that   *)
(* CREATE2 cuts out of keccak256(0xff ++ from ++ salt ++ hash) are read    *)
(* from the table `digest`, which Init chooses arbitrarily and which no    *)
(* action changes.  Both viem's getCreate2Address and the EVM's create2    *)
(* read that same table, because both apply the same formula.              *)
(***************************************************************************)
EXTENDS Integers, Sequences, FiniteSets, TLC

VARIABLES
    digest,         \* the keccak table: <<from, salt, hash>> -> 20 bytes (as 40 nibbles)
    \* ---- the call frame of findVanitySalt
    deployer, initCodeHash, desiredPrefix, maxIterations,
    i,              \* the loop counter
    spc,            \* "idle" | "loop" | "returned"
    ret,            \* Null, or [salt |-> .., address |-> ..]
    iterations,     \* number of loop bodies executed in this call
    console,        \* what findVanitySalt wrote with console.log
    \* ---- main
    pc,             \* position of main
    step,           \* which proxy (1..3) main is working on
    impl,           \* implementation addresses deployed so far (sequence)
    initCode,       \* init code built for each proxy so far (sequence)
    vanity,         \* result of findVanitySalt for each proxy so far (sequence)
    proxy,          \* proxy addresses main uses (sequence)
    compared,       \* proxies whose on-chain address main compared with the prediction
    exitCode,       \* "running" | 0 | 1
    \* ---- the chain
    code,           \* addresses that hold contract code
    events,         \* Deployed(addr, salt) events of the factory, in order
    txs             \* deploy calls sent to the factory: [salt, bytecode, status, addr]

searchVars == <<deployer, initCodeHash, desiredPrefix, maxIterations, i, spc, ret,
                iterations, console>>
mainVars   == <<pc, step, impl, initCode, vanity, proxy, compared, exitCode>>
chainVars  == <<code, events, txs>>
vars       == <<digest, searchVars, mainVars, chainVars>>

(***************************************************************************)
(* Bounds                                                                  *)
(***************************************************************************)
MaxIter  == 3      \* largest maxIterations tried in the small search runs
MaxCalls == 3      \* number of factory calls in the factory runs
DefaultMaxIterations == 2
    \* the iteration budget of main's searches: main leaves maxIterations at
    \* its default (100000000, line 11), which is scaled down here

(***************************************************************************)
(* Program constants                                                       *)
(***************************************************************************)
LogEvery       == 100000   \* progress report period
AddressNibbles == 40       \* an address is 20 bytes (uint160)

(***************************************************************************)
(* Strings are sequences of one-character strings.                         *)
(***************************************************************************)
HexDigits == <<"0","1","2","3","4","5","6","7","8","9","a","b","c","d","e","f">>

LowerChar(c) ==
    CASE c = "A" -> "a" [] c = "B" -> "b" [] c = "C" -> "c"
      [] c = "D" -> "d" [] c = "E" -> "e" [] c = "F" -> "f"
      [] c = "X" -> "x" [] OTHER -> c

UpperChar(c) ==
    CASE c = "a" -> "A" [] c = "b" -> "B" [] c = "c" -> "C"
      [] c = "d" -> "D" [] c = "e" -> "E" [] c = "f" -> "F"
      [] c = "x" -> "X" [] OTHER -> c

\* String.prototype.toLowerCase
toLowerCase(s) == [k \in 1..Len(s) |-> LowerChar(s[k])]

\* String.prototype.startsWith
startsWith(s, p) == Len(p) <= Len(s) /\ \A k \in 1..Len(p) : s[k] = p[k]

\* viem toHex(number): "0x" and the minimal hex digits of n
RECURSIVE HexOf(_)
HexOf(n) == IF n < 16 THEN <<HexDigits[n + 1]>>
            ELSE Append(HexOf(n \div 16), HexDigits[(n % 16) + 1])

toHex(n) == <<"0", "x">> \o HexOf(n)

\* viem keccak256: an injective term
keccak256(data) == <<"keccak256", data>>

(***************************************************************************)
(* Addresses.  The raw address is 40 nibbles; viem prints it as "0x" and   *)
(* 40 hex digits in EIP-55 checksum case (some letters upper case).        *)
(***************************************************************************)
Pad(head, fill) ==
    [k \in 1..AddressNibbles |-> IF k <= Len(head) THEN head[k] ELSE fill]

\* EIP-55 upper-cases the letter at position k when the k-th nibble of the
\* hash of the address is >= 8: some fixed function of the address.
ChecksumUpper(raw, k) == (raw[k] + raw[AddressNibbles] + k) % 2 = 0

\* viem getAddress / checksumAddress
checksumAddress(raw) ==
    <<"0", "x">> \o
    [k \in 1..AddressNibbles |->
        IF ChecksumUpper(raw, k) THEN UpperChar(HexDigits[raw[k] + 1])
                                 ELSE HexDigits[raw[k] + 1]]

\* the 20 bytes an address string denotes (what the chain sees)
NibbleOf(c) == CHOOSE n \in 0..15 : HexDigits[n + 1] = LowerChar(c)

rawAddress(a) == [k \in 1..AddressNibbles |-> NibbleOf(a[k + 2])]

\* The digest of keys outside the table: an address with no vanity prefix.
DefaultDigest == Pad(<<1, 2, 3, 10, 11>>, 7)

\* last 20 bytes of keccak256(0xff ++ from ++ salt ++ hash)
Create2Bytes(from, salt, hash) ==
    IF <<from, salt, hash>> \in DOMAIN digest
        THEN digest[<<from, salt, hash>>] ELSE DefaultDigest

\* viem getCreate2Address({from, salt, bytecodeHash})
getCreate2Address(from, salt, bytecodeHash) ==
    checksumAddress(Create2Bytes(from, salt, bytecodeHash))

\* the candidate addresses the table may hold
Pool == { Pad(<<8, 0, 0, 4, 10>>, 0), Pad(<<8, 0, 0, 4, 10>>, 1),
          Pad(<<8, 0, 0, 4, 11>>, 0), Pad(<<8, 0, 0, 4, 12>>, 1) }

(***************************************************************************)
(* The chain: EVM create2 and Create2Factory.deploy                        *)
(***************************************************************************)
ZeroAddr == Pad(<<>>, 0)

\* address(this) of the factory main deploys at line 51
FactoryAddr == Pad(<<15, 10, 12>>, 0)
OtherAddr   == Pad(<<13, 14>>, 0)

\* Create2Factory.computeAddress(salt, bytecodeHash)
computeAddress(salt, bytecodeHash) == Create2Bytes(FactoryAddr, salt, bytecodeHash)

\* create2(0, bytecode, salt) executed by the factory on the code set cs:
\* the address created (0 on failure) and the code set afterwards.  It fails
\* when the address is taken or the init code reverts; init code that
\* returns no runtime code leaves an account without code.
create2(cs, salt, bytecode) ==
    LET a == computeAddress(salt, keccak256(bytecode)) IN
    IF a \in cs \/ bytecode.runs = "reverts"
        THEN [addr |-> ZeroAddr, code |-> cs]
    ELSE IF bytecode.runs = "empty"
        THEN [addr |-> a, code |-> cs]
    ELSE [addr |-> a, code |-> cs \cup {a}]

\* deploy without the extcodesize test
deploy_NoSizeCheck(cs, evs, salt, bytecode) ==
    LET r == create2(cs, salt, bytecode) IN
    [status |-> "success", addr |-> r.addr, code |-> r.code,
     events |-> Append(evs, [addr |-> r.addr, salt |-> salt])]

\* Create2Factory.deploy(salt, bytecode) on code set cs and event log evs
deploy(cs, evs, salt, bytecode) ==
    LET r == create2(cs, salt, bytecode) IN
    IF r.addr \notin r.code
        THEN [status |-> "reverted", addr |-> ZeroAddr, code |-> cs, events |-> evs]
        ELSE [status |-> "success", addr |-> r.addr, code |-> r.code,
              events |-> Append(evs, [addr |-> r.addr, salt |-> salt])]

(***************************************************************************)
(* findVanitySalt, one loop iteration per step                             *)
(***************************************************************************)
\* line 15: the loop condition
InLoop_Inclusive == i <= maxIterations

InLoop == i < maxIterations

\* line 13
prefixOf_AsGiven(p) == p

prefixOf(p) == toLowerCase(p)

\* line 16
saltOf(n) == keccak256(toHex(n))

\* lines 17-21
addressFor(d, h, n) == getCreate2Address(d, saltOf(n), h)

\* String.prototype.includes
includes(s, p) ==
    \E o \in 0..(Len(s) - Len(p)) : \A k \in 1..Len(p) : s[o + k] = p[k]

\* line 23
MatchesFor_Includes(d, h, p, n) ==
    includes(toLowerCase(addressFor(d, h, n)), prefixOf(p))

MatchesFor(d, h, p, n) ==
    startsWith(toLowerCase(addressFor(d, h, n)), <<"0", "x">> \o prefixOf(p))

\* the current call's salt, address and test at counter n
addressOf(n) == addressFor(deployer, initCodeHash, n)
Matches(n)   == MatchesFor(deployer, initCodeHash, desiredPrefix, n)

\* line 28, without the i > 0 test
Reports_FromZero(n) == n % LogEvery = 0

\* line 28
Reports(n) == n % LogEvery = 0 /\ n > 0

Null == [null |-> TRUE]

\* findVanitySalt as a function of its arguments (lines 7-34), from counter n on
RECURSIVE searchFrom(_, _, _, _, _)
searchFrom(d, h, p, m, n) ==
    IF ~(n < m) THEN Null
    ELSE IF MatchesFor(d, h, p, n)
         THEN [salt |-> saltOf(n), address |-> addressFor(d, h, n)]
         ELSE searchFrom(d, h, p, m, n + 1)

findVanitySalt(d, h, p, m) == searchFrom(d, h, p, m, 0)

\* entering findVanitySalt(d, h, p, m)
Enter(d, h, p, m) ==
    /\ deployer' = d /\ initCodeHash' = h /\ desiredPrefix' = p
    /\ maxIterations' = m
    /\ i' = 0 /\ spc' = "loop" /\ ret' = Null /\ iterations' = 0

\* a match that is remembered while the loop goes on
LoopMatch_NoReturn ==
    /\ spc = "loop" /\ InLoop /\ Matches(i)
    /\ ret' = [salt |-> saltOf(i), address |-> addressOf(i)]
    /\ i' = i + 1
    /\ iterations' = iterations + 1
    /\ UNCHANGED <<deployer, initCodeHash, desiredPrefix, maxIterations, spc, console>>
    /\ UNCHANGED <<digest, mainVars, chainVars>>

\* lines 15-25: the iteration that matches returns the pair
LoopMatch ==
    /\ spc = "loop" /\ InLoop /\ Matches(i)
    /\ ret' = [salt |-> saltOf(i), address |-> addressOf(i)]
    /\ spc' = "returned"
    /\ iterations' = iterations + 1
    /\ UNCHANGED <<deployer, initCodeHash, desiredPrefix, maxIterations, i, console>>
    /\ UNCHANGED <<digest, mainVars, chainVars>>

\* lines 15-31: an iteration that does not match reports progress and goes on
LoopNext ==
    /\ spc = "loop" /\ InLoop /\ ~Matches(i)
    /\ console' = IF Reports(i) THEN Append(console, i) ELSE console
    /\ i' = i + 1
    /\ iterations' = iterations + 1
    /\ UNCHANGED <<deployer, initCodeHash, desiredPrefix, maxIterations, spc, ret>>
    /\ UNCHANGED <<digest, mainVars, chainVars>>

\* lines 15, 33: the loop condition fails and null is returned
LoopExit ==
    /\ spc = "loop" /\ ~InLoop
    /\ ret' = Null
    /\ spc' = "returned"
    /\ UNCHANGED <<deployer, initCodeHash, desiredPrefix, maxIterations, i,
                   iterations, console>>
    /\ UNCHANGED <<digest, mainVars, chainVars>>

(***************************************************************************)
(* Search runs: findVanitySalt called on its own with drawn inputs         *)
(***************************************************************************)
SomeInitCode == [bytecode |-> "ERC1967Proxy", impl |-> OtherAddr,
                 selector |-> "8129fc1c", arg |-> <<>>, runs |-> "ok"]

Prefixes == { <<>>, <<"8">>, <<"9">>,
              <<"8","0","0","4","a">>, <<"8","0","0","4","A">>,
              <<"8","0","0","4","B">>, <<"8","0","0","4","c">>,
              <<"0">>, <<"0","x","8","0","0","4","a">> }

SearchKeys(d, h, ns) == { <<d, saltOf(n), h>> : n \in ns }

IdleMain ==
    /\ pc = "none" /\ step = 0 /\ impl = <<>> /\ initCode = <<>>
    /\ vanity = <<>> /\ proxy = <<>> /\ compared = {} /\ exitCode = "running"

IdleChain == code = {} /\ events = <<>> /\ txs = <<>>

InitSearch ==
    /\ deployer \in {FactoryAddr, OtherAddr}
    /\ initCodeHash = keccak256(SomeInitCode)
    /\ desiredPrefix \in Prefixes
    /\ maxIterations \in 0..MaxIter
    /\ digest \in [SearchKeys(deployer, initCodeHash, 0..(MaxIter - 1)) -> Pool]
    /\ i = 0 /\ spc = "loop" /\ ret = Null /\ iterations = 0 /\ console = <<>>
    /\ IdleMain /\ IdleChain

NextSearch == LoopMatch \/ LoopNext \/ LoopExit

SpecSearch == InitSearch /\ [][NextSearch]_vars

(***************************************************************************)
(* Claims about findVanitySalt (SpecSearch)                                *)
(***************************************************************************)
FirstMatch(m) ==
    /\ m \in 0..(maxIterations - 1)
    /\ Matches(m)
    /\ \A j \in 0..(m - 1) : ~Matches(j)

NoMatch == \A m \in 0..(maxIterations - 1) : ~Matches(m)

\* C1: a returned pair carries the salt of the smallest counter in
\* [0, maxIterations) whose address matches, the call has returned at that
\* counter, and exactly the counters 0..i have been iterated (none beyond it).
C1_MinimalShortCircuit ==
    ret # Null =>
        /\ spc = "returned"
        /\ FirstMatch(i)
        /\ ret.salt = saltOf(i)
        /\ iterations = i + 1

\* a pair returned at a counter > 0 while a later counter matches too
C1_Witness ==
    /\ spc = "returned" /\ ret # Null /\ i >= 1
    /\ \E j \in (i + 1)..(maxIterations - 1) : Matches(j)

\* C2: a returned pair's address is the one derived from (deployer, salt,
\* initCodeHash), and its lower-cased digits after "0x" start with the
\* lower-cased desired prefix.
C2_PrefixCorrect ==
    ret # Null =>
        /\ ret.address = getCreate2Address(deployer, ret.salt, initCodeHash)
        /\ startsWith(toLowerCase(SubSeq(ret.address, 3, Len(ret.address))),
                      toLowerCase(desiredPrefix))

\* a pair whose checksummed address has upper-case letters inside the prefix
C2_Witness ==
    /\ ret # Null /\ Len(desiredPrefix) >= 5
    /\ SubSeq(ret.address, 3, 7) # toLowerCase(SubSeq(ret.address, 3, 7))

\* C3: when no counter in [0, maxIterations) matches, the call returns null
\* after exactly maxIterations iterations, and a running call has iterated
\* exactly the counters below i.
C3_Exhaustion ==
    NoMatch =>
        /\ ret = Null
        /\ iterations = i /\ i <= maxIterations
        /\ spc = "returned" => iterations = maxIterations

\* null returned after several iterations over hex prefixes that do occur
C3_Witness ==
    /\ spc = "returned" /\ ret = Null /\ iterations >= 2
    /\ desiredPrefix = <<"8","0","0","4","B">>

\* C8: the result for desiredPrefix equals the result of findVanitySalt for
\* the lower-cased prefix.
C8_CaseInsensitive ==
    spc = "returned" =>
        ret = findVanitySalt(deployer, initCodeHash, toLowerCase(desiredPrefix),
                             maxIterations)

\* a pair found for a prefix given with an upper-case letter
C8_Witness ==
    /\ spc = "returned" /\ ret # Null
    /\ desiredPrefix # toLowerCase(desiredPrefix)

(***************************************************************************)
(* Long search runs: the calls that reach the first progress report.  The  *)
(* keccak table differs from DefaultDigest only right after counter        *)
(* LogEvery, so a match can follow the report.                             *)
(***************************************************************************)
InitLog ==
    /\ deployer = FactoryAddr
    /\ initCodeHash = keccak256(SomeInitCode)
    /\ desiredPrefix = <<"8","0","0","4","B">>
    /\ maxIterations = LogEvery + MaxIter
    /\ digest \in [SearchKeys(deployer, initCodeHash, {LogEvery + 1}) ->
                        { Pad(<<8, 0, 0, 4, 10>>, 0), Pad(<<8, 0, 0, 4, 11>>, 0) }]
    /\ i = 0 /\ spc = "loop" /\ ret = Null /\ iterations = 0 /\ console = <<>>
    /\ IdleMain /\ IdleChain

SpecLog == InitLog /\ [][NextSearch]_vars

ImplAddr(k) == Pad(<<12, k>>, 0)

\* lines 77, 120, 163
VanityPrefix(k) ==
    CASE k = 1 -> <<"8","0","0","4","a">>
      [] k = 2 -> <<"8","0","0","4","b">>
      [] k = 3 -> <<"8","0","0","4","c">>

\* lines 62-72, 105-116, 148-159: proxy bytecode ++ abi(impl, init calldata);
\* the Reputation and Validation init data embed the identity proxy address
InitCodeOf(k, implAddr, identityProxy) ==
    [bytecode |-> "ERC1967Proxy", impl |-> implAddr,
     selector |-> IF k = 1 THEN "8129fc1c" ELSE "c4d66de8",
     arg |-> IF k = 1 THEN <<>> ELSE identityProxy,
     runs |-> "ok"]

\* main().catch, lines 230-233, with the exit call left out
Throw_NoExit == pc' = "failed" /\ exitCode' = 0

\* a rejection of main: main().catch, lines 230-233
Throw == pc' = "failed" /\ exitCode' = 1

\* lines 40-53
DeployFactory ==
    /\ pc = "start"
    /\ code' = code \cup {FactoryAddr}
    /\ pc' = "impl" /\ step' = 1
    /\ UNCHANGED <<impl, initCode, vanity, proxy, compared, exitCode>>
    /\ UNCHANGED <<digest, searchVars, events, txs>>

\* lines 57-77, 100-120, 143-163: deploy the implementation, build the init
\* code and call findVanitySalt with the default maxIterations
DeployImpl ==
    /\ pc = "impl"
    /\ code' = code \cup {ImplAddr(step)}
    /\ impl' = Append(impl, ImplAddr(step))
    /\ LET ic == InitCodeOf(step, ImplAddr(step), IF step = 1 THEN <<>> ELSE proxy[1]) IN
        /\ initCode' = Append(initCode, ic)
        /\ Enter(FactoryAddr, keccak256(ic), VanityPrefix(step), DefaultMaxIterations)
    /\ pc' = "search"
    /\ UNCHANGED <<step, vanity, proxy, compared, exitCode>>
    /\ UNCHANGED <<digest, console, events, txs>>

\* line 86 with the first init code passed every time
DeployArgs_IdentityInitCode(k) ==
    [salt |-> vanity'[k].salt, bytecode |-> initCode[1]]

\* lines 86, 129, 172: the arguments of factory.write.deploy
DeployArgs(k) == [salt |-> vanity'[k].salt, bytecode |-> initCode[k]]

\* lines 79-86, 122-129, 165-172: throw on null, else send the deploy call
SearchReturned ==
    /\ pc = "search" /\ spc = "returned"
    /\ vanity' = Append(vanity, ret)
    /\ spc' = "idle"
    /\ IF ret = Null
          THEN Throw /\ txs' = txs
          ELSE /\ txs' = Append(txs, [salt |-> DeployArgs(step).salt,
                                       bytecode |-> DeployArgs(step).bytecode,
                                       status |-> "pending", addr |-> ZeroAddr])
               /\ pc' = "submitted" /\ exitCode' = exitCode
    /\ UNCHANGED <<step, impl, initCode, proxy, compared>>
    /\ UNCHANGED <<deployer, initCodeHash, desiredPrefix, maxIterations, i, ret,
                   iterations, console>>
    /\ UNCHANGED <<digest, code, events>>

\* the chain executes the pending deploy call
Mine ==
    /\ txs # <<>> /\ txs[Len(txs)].status = "pending"
    /\ LET t == txs[Len(txs)]
           r == deploy(code, events, t.salt, t.bytecode) IN
        /\ code' = r.code
        /\ events' = r.events
        /\ txs' = [txs EXCEPT ![Len(txs)].status = r.status, ![Len(txs)].addr = r.addr]
    /\ UNCHANGED <<digest, searchVars, mainVars>>

\* line 87 without the await
ReceiptArrived_NoAwait == TRUE

\* lines 87, 130, 173: waitForTransactionReceipt resolves once the call is mined
ReceiptArrived == txs[Len(txs)].status # "pending"

\* lines 87-96, 130-139, 173-182: the receipt is awaited and dropped, and the
\* predicted address is taken as the proxy address; nothing is compared, so
\* `compared` stays as it is
Receipt ==
    /\ pc = "submitted" /\ ReceiptArrived
    /\ proxy' = Append(proxy, vanity[step].address)
    /\ IF step < 3 THEN pc' = "impl" /\ step' = step + 1
                   ELSE pc' = "verify" /\ step' = step
    /\ UNCHANGED <<impl, initCode, vanity, compared, exitCode>>
    /\ UNCHANGED <<digest, searchVars, chainVars>>

\* lines 188-228: the reads through the proxies, then the summary
Verify ==
    /\ pc = "verify"
    /\ IF \A k \in 1..Len(proxy) : rawAddress(proxy[k]) \in code
          THEN pc' = "done" /\ exitCode' = 0
          ELSE Throw
    /\ UNCHANGED <<step, impl, initCode, vanity, proxy, compared>>
    /\ UNCHANGED <<digest, searchVars, chainVars>>

\* the addresses the keccak table of a main run may hold
MainPool == { Pad(<<8, 0, 0, 4, 10>>, 1), Pad(<<8, 0, 0, 4, 11>>, 0),
              Pad(<<8, 0, 0, 4, 12>>, 1) }

\* the only 0x8004a address of MainPool, as main would hold it
IdentityCandidate == checksumAddress(Pad(<<8, 0, 0, 4, 10>>, 1))

MainKeys ==
    UNION { SearchKeys(FactoryAddr,
                       keccak256(InitCodeOf(k, ImplAddr(k),
                                            IF k = 1 THEN <<>> ELSE IdentityCandidate)),
                       0..(DefaultMaxIterations - 1)) : k \in 1..3 }

InitMain ==
    /\ digest \in [MainKeys -> MainPool]
    /\ deployer = ZeroAddr /\ initCodeHash = keccak256(SomeInitCode)
    /\ desiredPrefix = <<>> /\ maxIterations = 0
    /\ i = 0 /\ spc = "idle" /\ ret = Null /\ iterations = 0 /\ console = <<>>
    /\ pc = "start" /\ step = 0 /\ impl = <<>> /\ initCode = <<>>
    /\ vanity = <<>> /\ proxy = <<>> /\ compared = {} /\ exitCode = "running"
    /\ IdleChain

NextMain ==
    \/ DeployFactory \/ DeployImpl
    \/ LoopMatch \/ LoopNext \/ LoopExit
    \/ SearchReturned \/ Mine \/ Receipt \/ Verify

SpecMain == InitMain /\ [][NextMain]_vars

(***************************************************************************)
(* Claims about main (SpecMain)                                            *)
(***************************************************************************)
\* C4: every proxy address main goes on with was compared by main with the
\* address the factory reported on chain, and main stops when they differ.
C4_MismatchChecked ==
    \A k \in 1..Len(proxy) :
        /\ k \in compared
        /\ txs[k].addr # rawAddress(vanity[k].address) => pc = "failed"

\* proxy k's deploy call is mined and code sits at the predicted address
Confirmed(k) ==
    /\ k <= Len(txs) /\ txs[k].status = "success"
    /\ rawAddress(vanity[k].address) \in code

\* C5: a deploy call is sent only with a salt findVanitySalt returned for
\* that proxy; and main takes up the proxy, deploys the next implementation,
\* builds init data embedding the identity proxy address, or reads from the
\* proxies only once the proxy's deploy call is mined with code at its address.
C5_Ordering ==
    /\ \A k \in 1..Len(txs) :
          k <= Len(vanity) /\ vanity[k] # Null /\ txs[k].salt = vanity[k].salt
    /\ \A k \in 1..Len(proxy) : Confirmed(k)
    /\ \A k \in 2..Len(impl) : Confirmed(k - 1)
    /\ \A k \in 2..Len(initCode) : Confirmed(1) /\ initCode[k].arg = proxy[1]
    /\ pc \in {"verify", "done"} => \A k \in 1..3 : Confirmed(k)

\* main has finished after three confirmed deployments
C5_Witness == pc = "done" /\ Len(proxy) = 3 /\ Len(events) = 3

\* C6: when a search returns null nothing is sent to the factory for that
\* proxy, and main throws at once: it ends with exit code 1 having deployed
\* no later implementation, sent no later deploy call and taken up no later
\* proxy.
C6_ExhaustedIsFatal ==
    /\ (pc = "search" /\ spc = "returned" /\ ret = Null) => Len(txs) = step - 1
    /\ \A k \in 1..Len(vanity) :
          vanity[k] = Null =>
              /\ pc = "failed" /\ exitCode = 1
              /\ Len(vanity) = k /\ Len(impl) = k /\ Len(initCode) = k
              /\ Len(txs) = k - 1 /\ Len(proxy) = k - 1

\* the second search is exhausted after the first proxy was deployed
C6_Witness ==
    /\ pc = "failed" /\ Len(vanity) = 2 /\ vanity[2] = Null
    /\ Len(proxy) = 1 /\ iterations = DefaultMaxIterations

\* C9: each search runs with the factory as deployer and the hash of the
\* init code built for that proxy; the deploy call carries the returned salt
\* and that same init code; and the address at which the factory's create2
\* created the contract is the address the search returned, which main uses
\* as the proxy address.
C9_PredictedIsDeployed ==
    /\ pc = "search" =>
          deployer = FactoryAddr /\ initCodeHash = keccak256(initCode[step])
    /\ \A k \in 1..Len(txs) :
          /\ txs[k].salt = vanity[k].salt
          /\ txs[k].bytecode = initCode[k]
          /\ txs[k].status # "pending" =>
                /\ txs[k].status = "success"
                /\ txs[k].addr = rawAddress(vanity[k].address)
                /\ txs[k].addr \in code
                /\ events[k] = [addr |-> txs[k].addr, salt |-> txs[k].salt]
    /\ \A k \in 1..Len(proxy) : rawAddress(proxy[k]) = txs[k].addr

\* three proxies deployed, one of them with a salt other than the first
C9_Witness ==
    /\ Len(proxy) = 3
    /\ txs[3].status = "success"
    /\ txs[2].salt = saltOf(1)

(***************************************************************************)
(* Factory runs: arbitrary callers call Create2Factory.deploy              *)
(***************************************************************************)
Code(name, runs) ==
    [bytecode |-> name, impl |-> ZeroAddr, selector |-> "", arg |-> <<>>,
     runs |-> runs]

FactoryCodes == { Code("A", "ok"), Code("B", "ok"),
                  Code("E", "empty"), Code("R", "reverts") }

FactorySalts == { saltOf(0), saltOf(1) }

FactoryKeys ==
    { <<FactoryAddr, s, keccak256(b)>> :
        s \in FactorySalts, b \in {c \in FactoryCodes : c.runs = "ok"} }

InitFactory ==
    /\ digest \in [FactoryKeys -> { Pad(<<8, 0, 0, 4, 10>>, 0), Pad(<<8, 0, 0, 4, 11>>, 0) }]
    /\ deployer = ZeroAddr /\ initCodeHash = keccak256(SomeInitCode)
    /\ desiredPrefix = <<>> /\ maxIterations = 0
    /\ i = 0 /\ spc = "idle" /\ ret = Null /\ iterations = 0 /\ console = <<>>
    /\ IdleMain
    /\ code = {FactoryAddr} /\ events = <<>> /\ txs = <<>>

\* one transaction calling deploy(salt, bytecode)
Call ==
    /\ Len(txs) < MaxCalls
    /\ \E s \in FactorySalts, b \in FactoryCodes :
         LET r == deploy(code, events, s, b) IN
         /\ code' = r.code
         /\ events' = r.events
         /\ txs' = Append(txs, [salt |-> s, bytecode |-> b,
                                 status |-> r.status, addr |-> r.addr])
    /\ UNCHANGED <<digest, searchVars, mainVars>>

NextFactory == Call

SpecFactory == InitFactory /\ [][NextFactory]_vars

Succeeded(t) == t.status = "success"

RECURSIVE EventsOf(_)
EventsOf(ts) ==
    IF ts = <<>> THEN <<>>
    ELSE LET t == ts[Len(ts)]
             before == EventsOf(SubSeq(ts, 1, Len(ts) - 1)) IN
         IF Succeeded(t) THEN Append(before, [addr |-> t.addr, salt |-> t.salt])
                         ELSE before

====
